---- MODULE Spec2Model ----
(***************************************************************************)
(* A model of the Solana helper server of src/src/main.rs: seven POST      *)
(* handlers that decode key strings, call one SDK primitive and wrap the   *)
(* result in the ApiResponse envelope.                                      *)
(*                                                                         *)
(* Strings are sequences of one-character strings.  The text encodings     *)
(* (base58, base64) are computed digit by digit with their real alphabets  *)
(* and radices.  Byte strings are sequences of 0..255.                     *)
(*                                                                         *)
(* Scaling.  TLC has 32-bit integers, so the byte LENGTHS of the key       *)
(* material are scaled down and nothing else: a public key, a seed and a   *)
(* scalar are 1 byte (32 in the SDK), a keypair, a signature and a         *)
(* SHA-512 digest are 2 bytes (64 in the SDK).  The Ed25519 group is        *)
(* scaled with them: a cyclic group of order 8 * 31 (cofactor 8, prime     *)
(* subgroup order 31 < 2^5, as the real order is 8 * l with l < 2^253),    *)
(* written additively as the integers mod 248, with base point 8.  The     *)
(* signing and verification equations, the clamping of the secret scalar,  *)
(* and the checks the library makes (and does not make) on key and         *)
(* signature bytes are those of ed25519-dalek 1.x, the version that        *)
(* exports the Keypair and PublicKey types main.rs imports.                *)
(***************************************************************************)
EXTENDS Integers, Sequences, FiniteSets, TLC

VARIABLES
    conn,     \* conn[c]: the exchange on connection c (idle, pending, done)
    wallet,   \* the session client's stored KeypairData, or None
    signed    \* the session client's stored sign exchange, or None

vars == <<conn, wallet, signed>>

None == <<>>
Some(x) == <<x>>

Ok(v) == [ok |-> TRUE, val |-> v]
Err == [ok |-> FALSE, val |-> <<>>]

(***************************************************************************)
(* Text encodings                                                          *)
(***************************************************************************)
B58 == <<"1","2","3","4","5","6","7","8","9",
         "A","B","C","D","E","F","G","H","J","K","L","M","N","P","Q","R","S","T","U","V","W","X","Y","Z",
         "a","b","c","d","e","f","g","h","i","j","k","m","n","o","p","q","r","s","t","u","v","w","x","y","z">>

B64 == <<"A","B","C","D","E","F","G","H","I","J","K","L","M","N","O","P","Q","R","S","T","U","V","W","X","Y","Z",
         "a","b","c","d","e","f","g","h","i","j","k","l","m","n","o","p","q","r","s","t","u","v","w","x","y","z",
         "0","1","2","3","4","5","6","7","8","9","+","/">>

\* The digit value of ch in an alphabet, or -1 when ch is not in it.
DigitOf(alphabet, ch) ==
    IF \E i \in 1..Len(alphabet) : alphabet[i] = ch
    THEN (CHOOSE i \in 1..Len(alphabet) : alphabet[i] = ch) - 1
    ELSE -1

RECURSIVE LeadingCount(_, _)
LeadingCount(s, z) ==
    IF s # <<>> /\ Head(s) = z THEN 1 + LeadingCount(Tail(s), z) ELSE 0

Repeat(x, n) == [i \in 1..n |-> x]

\* The number a digit sequence denotes, most significant digit first.
RECURSIVE ValueOf(_, _, _)
ValueOf(digits, radix, acc) ==
    IF digits = <<>> THEN acc
    ELSE ValueOf(Tail(digits), radix, acc * radix + Head(digits))

\* The digits of n, most significant first; no digit for 0.
RECURSIVE DigitsOf(_, _)
DigitsOf(n, radix) ==
    IF n = 0 THEN <<>> ELSE Append(DigitsOf(n \div radix, radix), n % radix)

\* bs58::encode(bytes).into_string(): a "1" per leading zero byte, then the
\* rest as a base-58 number.
bs58_encode(bytes) ==
    LET zeros == LeadingCount(bytes, 0)
        digits == DigitsOf(ValueOf(bytes, 256, 0), Len(B58))
    IN Repeat("1", zeros) \o [i \in 1..Len(digits) |-> B58[digits[i] + 1]]

\* bs58::decode(s).into_vec(): an error on a character outside the
\* alphabet; a zero byte per leading "1", then the rest as base-256 digits.
bs58_decode(s) ==
    IF \E i \in 1..Len(s) : DigitOf(B58, s[i]) < 0 THEN Err
    ELSE LET ones == LeadingCount(s, "1")
             digits == [i \in 1..Len(s) |-> DigitOf(B58, s[i])]
         IN Ok(Repeat(0, ones) \o DigitsOf(ValueOf(digits, Len(B58), 0), 256))

\* One base64 quantum: 1..3 bytes to 4 characters, padded with "=".
Quantum64(chunk) ==
    LET n == Len(chunk)
        bits == ValueOf(chunk \o Repeat(0, 3 - n), 256, 0)
        d == <<bits \div 262144, (bits \div 4096) % 64, (bits \div 64) % 64, bits % 64>>
    IN [i \in 1..4 |-> IF i <= n + 1 THEN B64[d[i] + 1] ELSE "="]

RECURSIVE base64_encode(_)
base64_encode(bytes) ==
    IF bytes = <<>> THEN <<>>
    ELSE IF Len(bytes) <= 3 THEN Quantum64(bytes)
    ELSE Quantum64(SubSeq(bytes, 1, 3)) \o base64_encode(SubSeq(bytes, 4, Len(bytes)))

\* The bytes of one quantum of 4 characters, `pad` of them padding; an
\* error when the bits the padding leaves unused are not zero.
Unquantum64(digits, pad) ==
    LET bits == ValueOf(digits \o Repeat(0, pad), 64, 0)
        bytes == <<bits \div 65536, (bits \div 256) % 256, bits % 256>>
    IN IF \E i \in (4 - pad)..3 : bytes[i] # 0 THEN Err
       ELSE Ok(SubSeq(bytes, 1, 3 - pad))

RECURSIVE Decode64(_, _)
Decode64(digits, pad) ==
    IF digits = <<>> THEN Ok(<<>>)
    ELSE IF Len(digits) <= 4 THEN Unquantum64(digits, pad)
    ELSE LET rest == Decode64(SubSeq(digits, 5, Len(digits)), pad)
         IN IF rest.ok
            THEN Ok(Unquantum64(SubSeq(digits, 1, 4), 0).val \o rest.val)
            ELSE Err

\* base64::decode(s), standard alphabet with canonical padding: an error
\* on a length that is no multiple of 4, on a character outside the
\* alphabet, on padding anywhere but the last one or two places, and on
\* non-zero trailing bits.  (Releases of the crate differ on texts whose
\* padding is left off; no request of the model carries one.)
base64_decode(s) ==
    LET n == Len(s)
        pad == IF n > 0 /\ s[n] = "="
               THEN (IF n > 1 /\ s[n - 1] = "=" THEN 2 ELSE 1)
               ELSE 0
        body == SubSeq(s, 1, n - pad)
    IN IF n % 4 # 0 THEN Err
       ELSE IF \E i \in 1..Len(body) : DigitOf(B64, body[i]) < 0 THEN Err
       ELSE Decode64([i \in 1..Len(body) |-> DigitOf(B64, body[i])], pad)

(***************************************************************************)
(* solana_sdk::pubkey::Pubkey                                              *)
(***************************************************************************)
PUBLIC_KEY_LENGTH == 1     \* bytes of a public key, scaled (32 in the SDK)
MAX_BASE58_LEN == 2        \* longest base58 text of a key, scaled (44)

\* Pubkey::from_str: too long a text or a decoded length other than the
\* key's is WrongSize, a character outside base58 is Invalid.  The bytes
\* are not checked to be a curve point.
Pubkey_from_str(s) ==
    IF Len(s) > MAX_BASE58_LEN THEN Err
    ELSE LET vec == bs58_decode(s)
         IN IF ~vec.ok THEN Err
            ELSE IF Len(vec.val) # PUBLIC_KEY_LENGTH THEN Err
            ELSE Ok(vec.val)

\* Pubkey::to_string
Pubkey_to_string(key) == bs58_encode(key)

(***************************************************************************)
(* ed25519_dalek 1.x over the scaled group                                 *)
(***************************************************************************)
COFACTOR == 8
BASEPOINT_ORDER == 31
GroupOrder == COFACTOR * BASEPOINT_ORDER
ED25519_BASEPOINT == COFACTOR      \* generates the subgroup of prime order
SECRET_KEY_LENGTH == PUBLIC_KEY_LENGTH
KEYPAIR_LENGTH == SECRET_KEY_LENGTH + PUBLIC_KEY_LENGTH
SIGNATURE_LENGTH == 2 * PUBLIC_KEY_LENGTH

\* scalar * point and point + point in the group.
ScalarMul(k, P) == (k * P) % GroupOrder
PointAdd(P, Q) == (P + Q) % GroupOrder
PointNeg(P) == (GroupOrder - P) % GroupOrder

\* CompressedEdwardsY::decompress: not every byte string is a point.
Decompress(bytes) ==
    IF bytes[1] < GroupOrder THEN Ok(bytes[1]) ELSE Err

Compress(P) == <<P>>

\* SHA-512, scaled to a 2-byte digest: two running mixes of the input.
RECURSIVE Mix(_, _, _)
Mix(bytes, mult, acc) ==
    IF bytes = <<>> THEN acc
    ELSE Mix(Tail(bytes), mult, (acc * mult + Head(bytes) + 1) % 256)

Sha512(bytes) == <<Mix(bytes, 33, 7), Mix(bytes, 5, 101)>>

\* Scalar::from_bytes_mod_order_wide: the digest, little endian, mod l.
ScalarFromHash(digest) == (digest[1] + 256 * digest[2]) % BASEPOINT_ORDER

\* ExpandedSecretKey::from(&SecretKey): the lower digest half clamped
\* (low three bits and top bit cleared, second-highest set) is the secret
\* scalar, the upper half the nonce prefix.
ExpandedSecretKey(seed) ==
    LET h == Sha512(seed)
        low == (h[1] - (h[1] % 8)) % 128
        key == IF (low \div 64) % 2 = 0 THEN low + 64 ELSE low
    IN [key |-> key, nonce |-> <<h[2]>>]

\* PublicKey::from(&SecretKey): key * basepoint, compressed.
PublicFromSecret(seed) ==
    Compress(ScalarMul(ExpandedSecretKey(seed).key, ED25519_BASEPOINT))

\* PublicKey::from_bytes: the length, then the point must decompress.
\* Points of small order are accepted.
DalekPubkey_from_bytes(bytes) ==
    IF Len(bytes) # PUBLIC_KEY_LENGTH THEN Err
    ELSE LET pt == Decompress(bytes)
         IN IF pt.ok THEN Ok([bytes |-> bytes, point |-> pt.val]) ELSE Err

\* Keypair::from_bytes: the length, then secret = the first half as it
\* is, public = PublicKey::from_bytes of the second half.  That the
\* public half is the one the secret half derives is NOT checked.
DalekKeypair_from_bytes(bytes) ==
    IF Len(bytes) # KEYPAIR_LENGTH THEN Err
    ELSE LET public == DalekPubkey_from_bytes(
                           SubSeq(bytes, SECRET_KEY_LENGTH + 1, KEYPAIR_LENGTH))
         IN IF public.ok
            THEN Ok([secret |-> SubSeq(bytes, 1, SECRET_KEY_LENGTH),
                     public |-> public.val])
            ELSE Err

\* Keypair::sign = ExpandedSecretKey::sign(message, &self.public):
\* r = H(nonce || m), R = r B, k = H(R || A || m) with A the keypair's
\* stored public key, s = k * key + r.
DalekKeypair_sign(keypair, message) ==
    LET esk == ExpandedSecretKey(keypair.secret)
        r == ScalarFromHash(Sha512(esk.nonce \o message))
        R == Compress(ScalarMul(r, ED25519_BASEPOINT))
        k == ScalarFromHash(Sha512(R \o keypair.public.bytes \o message))
        s == (k * esk.key + r) % BASEPOINT_ORDER
    IN R \o <<s>>

\* Signature::from_bytes: the length, and the three highest bits of the
\* last byte must be clear (a partial check that s is reduced).
DalekSignature_from_bytes(bytes) ==
    IF Len(bytes) # SIGNATURE_LENGTH THEN Err
    ELSE IF bytes[SIGNATURE_LENGTH] >= 32 THEN Err
    ELSE Ok(bytes)

\* check_scalar: s must be canonical; the four highest bits clear is the
\* fast path.
check_scalar(s) ==
    IF s < 16 THEN Ok(s)
    ELSE IF s < BASEPOINT_ORDER THEN Ok(s)
    ELSE Err

\* PublicKey::verify (not verify_strict): s canonical, then
\* compress(k * (-A) + s * B) = R, bytewise.  R is never decompressed and
\* neither A nor R is checked for small order.
DalekPubkey_verify(pubkey, message, sig) ==
    LET R == SubSeq(sig, 1, PUBLIC_KEY_LENGTH)
        s == check_scalar(sig[SIGNATURE_LENGTH])
        k == ScalarFromHash(Sha512(R \o pubkey.bytes \o message))
    IN IF ~s.ok THEN FALSE
       ELSE Compress(PointAdd(ScalarMul(k, PointNeg(pubkey.point)),
                              ScalarMul(s.val, ED25519_BASEPOINT))) = R

\* solana_sdk Keypair::new(): a fresh seed from the OS generator and the
\* public key derived from it.  seed is the generator's draw.
Keypair_new(seed) ==
    [secret |-> seed,
     public |-> [bytes |-> PublicFromSecret(seed),
                 point |-> PublicFromSecret(seed)[1]]]

\* Keypair::to_bytes: secret || public.
Keypair_to_bytes(keypair) == keypair.secret \o keypair.public.bytes

(***************************************************************************)
(* Instruction builders of solana_sdk and spl_token                        *)
(***************************************************************************)
system_program_id == <<0>>         \* 32 zero bytes in the SDK
spl_token_program_id == <<6>>
sysvar_rent_id == <<42>>

\* A little-endian integer of `width` bytes.
RECURSIVE le_bytes(_, _)
le_bytes(n, width) ==
    IF width = 0 THEN <<>>
    ELSE <<n % 256>> \o le_bytes(n \div 256, width - 1)

AccountMeta(key, is_signer, is_writable) ==
    [pubkey |-> key, is_signer |-> is_signer, is_writable |-> is_writable]

\* spl_token::check_program_account
check_program_account(program_id) == program_id = spl_token_program_id

\* spl_token::instruction::initialize_mint: tag 0, decimals, the mint
\* authority, and the absent freeze authority as one 0 byte.
initialize_mint(program_id, mint, authority, freeze, decimals) ==
    IF ~check_program_account(program_id) THEN Err
    ELSE Ok([program_id |-> program_id,
             accounts |-> <<AccountMeta(mint, FALSE, TRUE),
                            AccountMeta(sysvar_rent_id, FALSE, FALSE)>>,
             data |-> <<0, decimals>> \o authority
                      \o (IF freeze = None THEN <<0>> ELSE <<1>> \o freeze[1])])

\* spl_token::instruction::mint_to: tag 7 and the amount; with no
\* multisig signer the authority signs.
mint_to(program_id, mint, account, owner, signers, amount) ==
    IF ~check_program_account(program_id) THEN Err
    ELSE Ok([program_id |-> program_id,
             accounts |-> <<AccountMeta(mint, FALSE, TRUE),
                            AccountMeta(account, FALSE, TRUE),
                            AccountMeta(owner, signers = <<>>, FALSE)>>
                          \o [i \in 1..Len(signers) |-> AccountMeta(signers[i], TRUE, FALSE)],
             data |-> <<7>> \o le_bytes(amount, 8)])

\* spl_token::instruction::transfer: tag 3 and the amount.
spl_transfer(program_id, source, destination, authority, signers, amount) ==
    IF ~check_program_account(program_id) THEN Err
    ELSE Ok([program_id |-> program_id,
             accounts |-> <<AccountMeta(source, FALSE, TRUE),
                            AccountMeta(destination, FALSE, TRUE),
                            AccountMeta(authority, signers = <<>>, FALSE)>>
                          \o [i \in 1..Len(signers) |-> AccountMeta(signers[i], TRUE, FALSE)],
             data |-> <<3>> \o le_bytes(amount, 8)])

\* system_instruction::transfer: bincode of SystemInstruction::Transfer,
\* variant 2 as a u32 and the lamports as a u64.
system_instruction_transfer(from, to, lamports) ==
    [program_id |-> system_program_id,
     accounts |-> <<AccountMeta(from, TRUE, TRUE), AccountMeta(to, FALSE, TRUE)>>,
     data |-> le_bytes(2, 4) \o le_bytes(lamports, 8)]

(***************************************************************************)
(* main.rs: the envelope and the seven handlers.  A handler is a function  *)
(* of its typed payload (and, for generate_keypair, of the generator's     *)
(* draw); it reads and writes nothing else.                                *)
(***************************************************************************)
\* ApiResponse::ok
ApiResponse_ok(data) == [success |-> TRUE, data |-> Some(data), error |-> None]

\* Mutant of ApiResponse::err: the message is dropped.
ApiResponse_err_no_text(msg) == [success |-> FALSE, data |-> None, error |-> None]

\* ApiResponse::err
ApiResponse_err(msg) == [success |-> FALSE, data |-> None, error |-> Some(msg)]

IncorrectProgramId == "Instruction error: incorrect program id"

\* The InstructionData a handler builds from an SDK instruction.
InstructionData(instr) ==
    [program_id |-> Pubkey_to_string(instr.program_id),
     accounts |-> [i \in 1..Len(instr.accounts) |->
                      [pubkey |-> Pubkey_to_string(instr.accounts[i].pubkey),
                       is_signer |-> instr.accounts[i].is_signer,
                       is_writable |-> instr.accounts[i].is_writable]],
     instruction_data |-> base64_encode(instr.data)]

\* The SendSolData send_sol builds: the account keys only.
SendSolData(instr) ==
    [program_id |-> Pubkey_to_string(instr.program_id),
     accounts |-> [i \in 1..Len(instr.accounts) |->
                      Pubkey_to_string(instr.accounts[i].pubkey)],
     instruction_data |-> base64_encode(instr.data)]

\* Mutant of generate_keypair: the secret text holds the secret half only.
generate_keypair_secret_only(seed) ==
    LET keypair == Keypair_new(seed)
    IN ApiResponse_ok([pubkey |-> Pubkey_to_string(keypair.public.bytes),
                       secret |-> bs58_encode(keypair.secret)])

generate_keypair(seed) ==
    LET keypair == Keypair_new(seed)
    IN ApiResponse_ok([pubkey |-> Pubkey_to_string(keypair.public.bytes),
                       secret |-> bs58_encode(Keypair_to_bytes(keypair))])

\* Mutant of create_token: a mint authority that does not parse is
\* replaced by the default key.
create_token_default_authority(payload) ==
    LET mint == Pubkey_from_str(payload.mint)
        parsed == Pubkey_from_str(payload.mintAuthority)
        authority == IF parsed.ok THEN parsed.val ELSE system_program_id
        instr == initialize_mint(spl_token_program_id, mint.val, authority,
                                 None, payload.decimals)
    IN IF ~mint.ok THEN ApiResponse_err("Invalid mint pubkey")
       ELSE IF ~instr.ok THEN ApiResponse_err(IncorrectProgramId)
       ELSE ApiResponse_ok(InstructionData(instr.val))

create_token(payload) ==
    LET mint == Pubkey_from_str(payload.mint)
        authority == Pubkey_from_str(payload.mintAuthority)
        instr == initialize_mint(spl_token_program_id, mint.val, authority.val,
                                 None, payload.decimals)
    IN IF ~mint.ok THEN ApiResponse_err("Invalid mint pubkey")
       ELSE IF ~authority.ok THEN ApiResponse_err("Invalid authority pubkey")
       ELSE IF ~instr.ok THEN ApiResponse_err(IncorrectProgramId)
       ELSE ApiResponse_ok(InstructionData(instr.val))

\* Mutant of mint_token: the destination is validated before the mint.
mint_token_reordered(payload) ==
    LET mint == Pubkey_from_str(payload.mint)
        dest == Pubkey_from_str(payload.destination)
        auth == Pubkey_from_str(payload.authority)
        instr == mint_to(spl_token_program_id, mint.val, dest.val, auth.val,
                         <<>>, payload.amount)
    IN IF ~dest.ok THEN ApiResponse_err("Invalid destination pubkey")
       ELSE IF ~mint.ok THEN ApiResponse_err("Invalid mint pubkey")
       ELSE IF ~auth.ok THEN ApiResponse_err("Invalid authority pubkey")
       ELSE IF ~instr.ok THEN ApiResponse_err(IncorrectProgramId)
       ELSE ApiResponse_ok(InstructionData(instr.val))

mint_token(payload) ==
    LET mint == Pubkey_from_str(payload.mint)
        dest == Pubkey_from_str(payload.destination)
        auth == Pubkey_from_str(payload.authority)
        instr == mint_to(spl_token_program_id, mint.val, dest.val, auth.val,
                         <<>>, payload.amount)
    IN IF ~mint.ok THEN ApiResponse_err("Invalid mint pubkey")
       ELSE IF ~dest.ok THEN ApiResponse_err("Invalid destination pubkey")
       ELSE IF ~auth.ok THEN ApiResponse_err("Invalid authority pubkey")
       ELSE IF ~instr.ok THEN ApiResponse_err(IncorrectProgramId)
       ELSE ApiResponse_ok(InstructionData(instr.val))

\* Mutant of sign_message: the secret text is signed in place of the
\* message.
sign_message_signs_secret(payload) ==
    LET secret_bytes == bs58_decode(payload.secret)
        keypair == DalekKeypair_from_bytes(secret_bytes.val)
        sig == DalekKeypair_sign(keypair.val, secret_bytes.val)
    IN IF ~secret_bytes.ok THEN ApiResponse_err("Invalid secret")
       ELSE IF ~keypair.ok THEN ApiResponse_err("Invalid secret bytes")
       ELSE ApiResponse_ok([signature |-> base64_encode(sig),
                            public_key |-> bs58_encode(keypair.val.public.bytes),
                            message |-> payload.message])

\* Mutant of sign_message: the secret is read from a buffer shared by the
\* requests in flight, which holds the secret of the first of them.
sign_message_shared_secret(payload) ==
    LET inflight == {c \in DOMAIN conn :
                        /\ conn[c].state = "pending"
                        /\ conn[c].req[1].endpoint = "sign_message"}
        secret == IF inflight = {} THEN payload.secret
                  ELSE conn[CHOOSE c \in inflight : \A d \in inflight : c <= d]
                           .req[1].payload.secret
        secret_bytes == bs58_decode(secret)
        keypair == DalekKeypair_from_bytes(secret_bytes.val)
        sig == DalekKeypair_sign(keypair.val, payload.message)
    IN IF ~secret_bytes.ok THEN ApiResponse_err("Invalid secret")
       ELSE IF ~keypair.ok THEN ApiResponse_err("Invalid secret bytes")
       ELSE ApiResponse_ok([signature |-> base64_encode(sig),
                            public_key |-> bs58_encode(keypair.val.public.bytes),
                            message |-> payload.message])

sign_message(payload) ==
    LET secret_bytes == bs58_decode(payload.secret)
        keypair == DalekKeypair_from_bytes(secret_bytes.val)
        sig == DalekKeypair_sign(keypair.val, payload.message)
    IN IF ~secret_bytes.ok THEN ApiResponse_err("Invalid secret")
       ELSE IF ~keypair.ok THEN ApiResponse_err("Invalid secret bytes")
       ELSE ApiResponse_ok([signature |-> base64_encode(sig),
                            public_key |-> bs58_encode(keypair.val.public.bytes),
                            message |-> payload.message])

\* Mutant of verify_message: bytes that are no signature count as a
\* signature that does not verify.
verify_message_lenient_signature(payload) ==
    LET pubkey_bytes == bs58_decode(payload.pubkey)
        sig_bytes == base64_decode(payload.signature)
        pubkey == DalekPubkey_from_bytes(pubkey_bytes.val)
        sig == DalekSignature_from_bytes(sig_bytes.val)
        valid == sig.ok /\ DalekPubkey_verify(pubkey.val, payload.message, sig.val)
    IN IF ~pubkey_bytes.ok THEN ApiResponse_err("Invalid pubkey")
       ELSE IF ~sig_bytes.ok THEN ApiResponse_err("Invalid signature")
       ELSE IF ~pubkey.ok THEN ApiResponse_err("Invalid pubkey bytes")
       ELSE ApiResponse_ok([valid |-> valid,
                            message |-> payload.message,
                            pubkey |-> payload.pubkey])

\* Mutant of verify_message: a verification that fails is propagated as
\* an error.
verify_message_failure_is_error(payload) ==
    LET pubkey_bytes == bs58_decode(payload.pubkey)
        sig_bytes == base64_decode(payload.signature)
        pubkey == DalekPubkey_from_bytes(pubkey_bytes.val)
        sig == DalekSignature_from_bytes(sig_bytes.val)
        valid == DalekPubkey_verify(pubkey.val, payload.message, sig.val)
    IN IF ~pubkey_bytes.ok THEN ApiResponse_err("Invalid pubkey")
       ELSE IF ~sig_bytes.ok THEN ApiResponse_err("Invalid signature")
       ELSE IF ~pubkey.ok THEN ApiResponse_err("Invalid pubkey bytes")
       ELSE IF ~sig.ok THEN ApiResponse_err("Invalid signature bytes")
       ELSE IF ~valid THEN ApiResponse_err("Invalid signature")
       ELSE ApiResponse_ok([valid |-> valid,
                            message |-> payload.message,
                            pubkey |-> payload.pubkey])

verify_message(payload) ==
    LET pubkey_bytes == bs58_decode(payload.pubkey)
        sig_bytes == base64_decode(payload.signature)
        pubkey == DalekPubkey_from_bytes(pubkey_bytes.val)
        sig == DalekSignature_from_bytes(sig_bytes.val)
        valid == DalekPubkey_verify(pubkey.val, payload.message, sig.val)
    IN IF ~pubkey_bytes.ok THEN ApiResponse_err("Invalid pubkey")
       ELSE IF ~sig_bytes.ok THEN ApiResponse_err("Invalid signature")
       ELSE IF ~pubkey.ok THEN ApiResponse_err("Invalid pubkey bytes")
       ELSE IF ~sig.ok THEN ApiResponse_err("Invalid signature bytes")
       ELSE ApiResponse_ok([valid |-> valid,
                            message |-> payload.message,
                            pubkey |-> payload.pubkey])

\* Mutant of send_sol: a counter shared by all requests, here the number
\* of exchanges already answered, is added into the payload.
send_sol_shared_counter(payload) ==
    LET from == Pubkey_from_str(payload.from)
        to == Pubkey_from_str(payload.to)
        served == Cardinality({c \in DOMAIN conn : conn[c].state = "done"})
        instr == system_instruction_transfer(from.val, to.val,
                                             payload.lamports + served)
    IN IF ~from.ok THEN ApiResponse_err("Invalid from")
       ELSE IF ~to.ok THEN ApiResponse_err("Invalid to")
       ELSE ApiResponse_ok(SendSolData(instr))

send_sol(payload) ==
    LET from == Pubkey_from_str(payload.from)
        to == Pubkey_from_str(payload.to)
        instr == system_instruction_transfer(from.val, to.val, payload.lamports)
    IN IF ~from.ok THEN ApiResponse_err("Invalid from")
       ELSE IF ~to.ok THEN ApiResponse_err("Invalid to")
       ELSE ApiResponse_ok(SendSolData(instr))

send_token(payload) ==
    LET mint == Pubkey_from_str(payload.mint)
        dest == Pubkey_from_str(payload.destination)
        owner == Pubkey_from_str(payload.owner)
        instr == spl_transfer(spl_token_program_id, mint.val, dest.val, owner.val,
                              <<>>, payload.amount)
    IN IF ~mint.ok THEN ApiResponse_err("Invalid mint")
       ELSE IF ~dest.ok THEN ApiResponse_err("Invalid destination")
       ELSE IF ~owner.ok THEN ApiResponse_err("Invalid owner")
       ELSE IF ~instr.ok THEN ApiResponse_err(IncorrectProgramId)
       ELSE ApiResponse_ok(InstructionData(instr.val))

(***************************************************************************)
(* Inputs                                                                  *)
(***************************************************************************)
MaxConn == 2       \* concurrent connections of the concurrent specification
NumSeeds == 2      \* draws of the OS generator that are considered
MaxMsgLen == 2     \* longest message text
MaxAmount == 1     \* amounts are the multiples of 255 up to MaxAmount * 255

Seeds == {<<s>> : s \in 1..NumSeeds}

MsgText == <<104, 101, 108, 108, 111>>      \* "hello"
Msgs == {SubSeq(MsgText, 1, n) : n \in 0..MaxMsgLen}

Amounts == {a * 255 : a \in 0..MaxAmount}
Decimals == {0, 9}

\* Key texts: two keys, a character outside base58, a text of two bytes.
GoodKeys == {Pubkey_to_string(<<5>>), Pubkey_to_string(<<200>>)}
BadKeys == {<<"0">>, <<"z", "z">>}
PubkeyStrs == GoodKeys \cup BadKeys

\* Secret texts: every seed with its own public key, with another seed's,
\* with the identity point and with a byte that is no point; a character
\* outside base58; a single byte.
PublicHalves == {PublicFromSecret(t) : t \in Seeds} \cup {<<0>>, <<250>>}
SecretStrs ==
    {bs58_encode(s \o p) : s \in Seeds, p \in PublicHalves}
    \cup {<<"0">>, bs58_encode(<<7>>)}

\* Signature texts: (R, s) pairs with s reduced, s = l, s with a high bit
\* set; a single byte; a character outside base64; a length of 1.
SigStrs ==
    {base64_encode(b) : b \in {<<8, 1>>, <<8, 31>>, <<8, 40>>, <<8>>}}
    \cup {<<"!", "!", "!", "!">>, <<"a">>}

\* Public key texts for verification: the seeds' keys, the identity
\* point, a byte that is no point, two bytes, a character outside base58.
VerifyKeyStrs ==
    {bs58_encode(p) : p \in PublicHalves} \cup {<<"z", "z">>, <<"0">>}

Req(endpoint, payload) ==
    [endpoint |-> endpoint, payload |-> payload, origin |-> "client"]

KeypairRequests == {Req("generate_keypair", <<>>)}

CreateTokenRequests(keys) ==
    {Req("create_token", [mintAuthority |-> a, mint |-> m, decimals |-> d]) :
        a \in keys, m \in keys, d \in Decimals}

MintTokenRequests(keys, amounts) ==
    {Req("mint_token", [mint |-> m, destination |-> d, authority |-> a, amount |-> n]) :
        m \in keys, d \in keys, a \in keys, n \in amounts}

SignMessageRequests(msgs, secrets) ==
    {Req("sign_message", [message |-> m, secret |-> k]) : m \in msgs, k \in secrets}

VerifyMessageRequests(msgs, sigs, keys) ==
    {Req("verify_message", [message |-> m, signature |-> g, pubkey |-> k]) :
        m \in msgs, g \in sigs, k \in keys}

SendSolRequests(keys, amounts) ==
    {Req("send_sol", [from |-> f, to |-> t, lamports |-> n]) :
        f \in keys, t \in keys, n \in amounts}

SendTokenRequests(keys, amounts) ==
    {Req("send_token", [destination |-> d, mint |-> m, owner |-> o, amount |-> n]) :
        d \in keys, m \in keys, o \in keys, n \in amounts}

\* What the session client may post on its own.
Requests ==
    KeypairRequests
    \cup CreateTokenRequests(PubkeyStrs)
    \cup MintTokenRequests(PubkeyStrs, Amounts)
    \cup SignMessageRequests(Msgs, SecretStrs)
    \cup VerifyMessageRequests(Msgs, SigStrs, VerifyKeyStrs)
    \cup SendSolRequests(PubkeyStrs, Amounts)
    \cup SendTokenRequests(PubkeyStrs, Amounts)

\* What the session client posts on its own to the key and message routes.
SessionRequests ==
    KeypairRequests
    \cup SignMessageRequests(Msgs, SecretStrs)
    \cup VerifyMessageRequests(Msgs, SigStrs, VerifyKeyStrs)

\* The smaller set the concurrent clients post: one good and one bad key
\* text, one amount, one message.
LeanKeys == {Pubkey_to_string(<<5>>), <<"0">>}
LeanAmounts == {255}
LeanMsgs == {<<104>>}
LeanSecrets == {bs58_encode(Keypair_to_bytes(Keypair_new(<<1>>))), <<"0">>}
LeanSigs == {base64_encode(DalekKeypair_sign(Keypair_new(<<1>>), <<104>>)),
             base64_encode(<<8, 40>>)}
LeanVerifyKeys == {bs58_encode(PublicFromSecret(<<1>>))}
LeanRequests ==
    KeypairRequests
    \cup {r \in CreateTokenRequests(LeanKeys) : r.payload.decimals = 9}
    \cup {r \in MintTokenRequests(LeanKeys, LeanAmounts) :
             r.payload.authority = r.payload.mint}
    \cup SignMessageRequests(LeanMsgs, LeanSecrets)
    \cup VerifyMessageRequests(LeanMsgs, LeanSigs, LeanVerifyKeys)
    \cup SendSolRequests(LeanKeys, LeanAmounts)
    \cup {r \in SendTokenRequests(LeanKeys, LeanAmounts) :
             r.payload.owner = r.payload.mint}

(***************************************************************************)
(* The state machine.  Connection 0 is the session client's, which posts   *)
(* one request at a time and may build a request from earlier responses;   *)
(* connections 1..MaxConn are concurrent clients.  The server keeps no     *)
(* state: a connection's exchange is all there is.                         *)
(***************************************************************************)
Conns == 0..MaxConn
SessionConns == {0}
ConcurrentConns == 1..MaxConn

Idle == [state |-> "idle", req |-> None, resp |-> None]
Pending(req) == [state |-> "pending", req |-> Some(req), resp |-> None]
Done(req, resp) == [state |-> "done", req |-> Some(req), resp |-> Some(resp)]

Init ==
    /\ conn = [c \in Conns |-> Idle]
    /\ wallet = None
    /\ signed = None

\* The router accepts a request on a connection with none in flight.
Post(c, req) ==
    /\ conn[c].state # "pending"
    /\ conn' = [conn EXCEPT ![c] = Pending(req)]
    /\ UNCHANGED <<wallet, signed>>

PostFresh(c) == \E req \in Requests : Post(c, req)

PostSession(c) == \E req \in SessionRequests : Post(c, req)

PostLean(c) == \E req \in LeanRequests : Post(c, req)

\* The client signs a message with the secret of its stored keypair.
PostSignWithWallet(c) ==
    /\ wallet # None
    /\ \E m \in Msgs :
          Post(c, Req("sign_message", [message |-> m, secret |-> wallet[1].secret]))

\* The client has a stored signature verified, against the public key the
\* sign response named or against its stored keypair's.
PostVerifySigned(c) ==
    /\ signed # None
    /\ \E k \in {signed[1].resp.public_key}
                \cup {wallet[i].pubkey : i \in 1..Len(wallet)} :
          Post(c, Req("verify_message",
                      [message |-> signed[1].resp.message,
                       signature |-> signed[1].resp.signature,
                       pubkey |-> k]))

\* Every way to change one byte of a byte string by one of the deltas.
MutDeltas == {1, 128}
ByteMutations(bytes) ==
    {[bytes EXCEPT ![i] = (bytes[i] + d) % 256] : i \in 1..Len(bytes), d \in MutDeltas}

\* After a verification that answered valid = true, the client posts the
\* same request with one byte of the message or of the signature changed.
PostMutated(c) ==
    /\ conn[c].state = "done"
    /\ conn[c].req[1].origin = "client"
    /\ conn[c].req[1].endpoint = "verify_message"
    /\ conn[c].resp[1].success
    /\ conn[c].resp[1].data[1].valid
    /\ LET p == conn[c].req[1].payload
           variants ==
               {[p EXCEPT !.message = m] : m \in ByteMutations(p.message)}
               \cup {[p EXCEPT !.signature = base64_encode(g)] :
                        g \in ByteMutations(base64_decode(p.signature).val)}
       IN \E v \in variants :
             Post(c, [endpoint |-> "verify_message", payload |-> v,
                      origin |-> "mutated"])

\* The client stores the keypair a response carries.
StoreKeypair(c) ==
    /\ conn[c].state = "done"
    /\ conn[c].req[1].endpoint = "generate_keypair"
    /\ conn[c].resp[1].success
    /\ wallet' = Some(conn[c].resp[1].data[1])
    /\ UNCHANGED <<conn, signed>>

\* The client stores a successful sign exchange.
StoreSigned(c) ==
    /\ conn[c].state = "done"
    /\ conn[c].req[1].endpoint = "sign_message"
    /\ conn[c].resp[1].success
    /\ signed' = Some([req |-> conn[c].req[1].payload,
                       resp |-> conn[c].resp[1].data[1]])
    /\ UNCHANGED <<conn, wallet>>

\* The handler of `endpoint` runs on the request pending on c; `resp` is
\* its response.
Respond(c, endpoint, resp) ==
    /\ conn[c].state = "pending"
    /\ conn[c].req[1].endpoint = endpoint
    /\ conn' = [conn EXCEPT ![c] = Done(conn[c].req[1], resp)]
    /\ UNCHANGED <<wallet, signed>>

Handle_generate_keypair(c) ==
    \E seed \in Seeds : Respond(c, "generate_keypair", generate_keypair(seed))

Handle_create_token(c) ==
    Respond(c, "create_token", create_token(conn[c].req[1].payload))

Handle_mint_token(c) ==
    Respond(c, "mint_token", mint_token(conn[c].req[1].payload))

Handle_sign_message(c) ==
    Respond(c, "sign_message", sign_message(conn[c].req[1].payload))

Handle_verify_message(c) ==
    Respond(c, "verify_message", verify_message(conn[c].req[1].payload))

Handle_send_sol(c) ==
    Respond(c, "send_sol", send_sol(conn[c].req[1].payload))

Handle_send_token(c) ==
    Respond(c, "send_token", send_token(conn[c].req[1].payload))

\* The router: one handler per route.
Serve(c) ==
    \/ Handle_generate_keypair(c)
    \/ Handle_create_token(c)
    \/ Handle_mint_token(c)
    \/ Handle_sign_message(c)
    \/ Handle_verify_message(c)
    \/ Handle_send_sol(c)
    \/ Handle_send_token(c)

\* A client that posts any request to any route, one at a time.
Next ==
    \E c \in SessionConns :
        \/ PostFresh(c)
        \/ Serve(c)

Spec == Init /\ [][Next]_vars

\* The routes of the key and message endpoints.
ServeSession(c) ==
    \/ Handle_generate_keypair(c)
    \/ Handle_sign_message(c)
    \/ Handle_verify_message(c)

\* One client session on the key and message endpoints: the client may
\* store a keypair and a signature it was sent and build requests from
\* them.
SessionNext ==
    \E c \in SessionConns :
        \/ PostSession(c)
        \/ PostSignWithWallet(c)
        \/ PostVerifySigned(c)
        \/ PostMutated(c)
        \/ StoreKeypair(c)
        \/ StoreSigned(c)
        \/ ServeSession(c)

SessionSpec == Init /\ [][SessionNext]_vars

\* Concurrent clients, served in any interleaving.
ConcNext ==
    \E c \in ConcurrentConns :
        \/ PostLean(c)
        \/ Serve(c)

ConcSpec == Init /\ [][ConcNext]_vars

(***************************************************************************)
(* Vocabulary of the properties                                            *)
(***************************************************************************)
IsDone(c, endpoint) ==
    conn[c].state = "done" /\ conn[c].req[1].endpoint = endpoint

ReqOf(c) == conn[c].req[1]
PayloadOf(c) == conn[c].req[1].payload
RespOf(c) == conn[c].resp[1]

IsSuccessEnvelope(r) == r.success /\ r.data # None /\ r.error = None
IsErrorEnvelope(r) == ~r.success /\ r.data = None /\ r.error # None

InstructionEndpoints == {"create_token", "mint_token", "send_sol", "send_token"}

\* The key fields of each endpoint's request.
KeyFields(endpoint) ==
    CASE endpoint = "create_token" -> {"mint", "mintAuthority"}
      [] endpoint = "mint_token" -> {"mint", "destination", "authority"}
      [] endpoint = "sign_message" -> {"secret"}
      [] endpoint = "verify_message" -> {"pubkey"}
      [] endpoint = "send_sol" -> {"from", "to"}
      [] endpoint = "send_token" -> {"mint", "destination", "owner"}
      [] OTHER -> {}

\* A text that decodes to a keypair: base58 of KEYPAIR_LENGTH bytes whose
\* public half is a point.
SecretIsKeyMaterial(text) ==
    bs58_decode(text).ok /\ DalekKeypair_from_bytes(bs58_decode(text).val).ok

\* A text that decodes to a verification key: base58 of one point.
PubkeyIsKeyMaterial(text) ==
    bs58_decode(text).ok /\ DalekPubkey_from_bytes(bs58_decode(text).val).ok

\* A text that decodes to a signature: base64 of SIGNATURE_LENGTH bytes
\* that pass Signature::from_bytes.
SignatureIsWellFormed(text) ==
    base64_decode(text).ok /\ DalekSignature_from_bytes(base64_decode(text).val).ok

\* Whether the key text of field f of a request to `endpoint` decodes to
\* key material of the form the endpoint requires.
KeyFieldValid(endpoint, payload, f) ==
    CASE endpoint = "sign_message" -> SecretIsKeyMaterial(payload[f])
      [] endpoint = "verify_message" -> PubkeyIsKeyMaterial(payload[f])
      [] OTHER -> Pubkey_from_str(payload[f]).ok

(***************************************************************************)
(* Properties                                                              *)
(***************************************************************************)

\* C1: a request with at least one key field that does not decode to key
\* material of the required form is answered with the error envelope,
\* whatever its other fields hold.
C1_InvalidKeyGivesErrorEnvelope ==
    \A c \in Conns :
        conn[c].state = "done" =>
            ((\E f \in KeyFields(ReqOf(c).endpoint) :
                  ~KeyFieldValid(ReqOf(c).endpoint, PayloadOf(c), f))
             => IsErrorEnvelope(RespOf(c)))

\* C1 witness: create_token was answered with the error envelope for a
\* request whose mint is a good key and whose mintAuthority is not.
C1_Witness ==
    \E c \in Conns :
        /\ IsDone(c, "create_token")
        /\ Pubkey_from_str(PayloadOf(c).mint).ok
        /\ ~Pubkey_from_str(PayloadOf(c).mintAuthority).ok
        /\ IsErrorEnvelope(RespOf(c))

\* Some seed (of all 256) derives the public key `pk` and signs `message`
\* to exactly the signature text `sigtext`: what sign_message returns for
\* the keypair of that seed.
ProducedBySign(message, sigtext, pk) ==
    \E b \in 0..255 :
        /\ PublicFromSecret(<<b>>) = pk
        /\ sign_message([message |-> message,
                         secret |-> bs58_encode(Keypair_to_bytes(Keypair_new(<<b>>)))])
              .data[1].signature = sigtext

\* C2 as stated: an accepted verification answers valid = true exactly
\* when the signature is the one sign_message produces over the message
\* with the secret of the public key, and a valid triple with one byte of
\* the message or of the signature changed is answered valid = false.
C2_ValidIffProducedBySign ==
    \A c \in Conns :
        IsDone(c, "verify_message") =>
            /\ RespOf(c).success =>
                  (RespOf(c).data[1].valid <=>
                      ProducedBySign(PayloadOf(c).message, PayloadOf(c).signature,
                                     bs58_decode(PayloadOf(c).pubkey).val))
            /\ ReqOf(c).origin = "mutated" =>
                  (RespOf(c).success /\ ~RespOf(c).data[1].valid)

\* C2 as amended: a verification of the signature sign_message produces
\* over the same message, with a keypair whose public half is the key
\* derived from its seed, against that public key answers valid = true.
C2_SignedByKeypairIsValid ==
    \A c \in Conns :
        (/\ IsDone(c, "verify_message")
         /\ bs58_decode(PayloadOf(c).pubkey).ok
         /\ ProducedBySign(PayloadOf(c).message, PayloadOf(c).signature,
                           bs58_decode(PayloadOf(c).pubkey).val))
        => (IsSuccessEnvelope(RespOf(c)) /\ RespOf(c).data[1].valid)

\* C2 witness: such a verification of a non-empty message was answered.
C2_Witness ==
    \E c \in Conns :
        /\ IsDone(c, "verify_message")
        /\ PayloadOf(c).message # <<>>
        /\ bs58_decode(PayloadOf(c).pubkey).ok
        /\ ProducedBySign(PayloadOf(c).message, PayloadOf(c).signature,
                          bs58_decode(PayloadOf(c).pubkey).val)
        /\ RespOf(c).success
        /\ RespOf(c).data[1].valid

\* The stored signature was made with the stored (generated) keypair's
\* secret.
SignedWithWallet ==
    /\ wallet # None
    /\ signed # None
    /\ signed[1].req.secret = wallet[1].secret

\* C3: with the secret of a generated keypair sign_message succeeds for
\* every message, and verify_message on that message, the signature
\* returned and the pubkey generate_keypair returned answers the success
\* envelope with valid = true.
C3_GeneratedKeypairRoundTrip ==
    \A c \in Conns :
        /\ (/\ IsDone(c, "sign_message")
            /\ wallet # None
            /\ PayloadOf(c).secret = wallet[1].secret)
           => IsSuccessEnvelope(RespOf(c))
        /\ (/\ IsDone(c, "verify_message")
            /\ SignedWithWallet
            /\ PayloadOf(c) = [message |-> signed[1].req.message,
                               signature |-> signed[1].resp.signature,
                               pubkey |-> wallet[1].pubkey])
           => (IsSuccessEnvelope(RespOf(c)) /\ RespOf(c).data[1].valid)

\* C3 witness: the whole round trip has run, on a non-empty message.
C3_Witness ==
    \E c \in Conns :
        /\ IsDone(c, "verify_message")
        /\ SignedWithWallet
        /\ signed[1].req.message # <<>>
        /\ PayloadOf(c) = [message |-> signed[1].req.message,
                           signature |-> signed[1].resp.signature,
                           pubkey |-> wallet[1].pubkey]
        /\ RespOf(c).data[1].valid

\* C4 as stated: for every secret sign_message accepts, verify_message on
\* the same message with the signature and the public_key that
\* sign_message returned answers valid = true.
C4_SignThenVerifyIsValid ==
    \A c \in Conns :
        (/\ IsDone(c, "verify_message")
         /\ signed # None
         /\ PayloadOf(c) = [message |-> signed[1].req.message,
                            signature |-> signed[1].resp.signature,
                            pubkey |-> signed[1].resp.public_key])
        => (IsSuccessEnvelope(RespOf(c)) /\ RespOf(c).data[1].valid)

C6_EnvelopeWellFormed ==
    \A c \in Conns :
        conn[c].state = "done" =>
            /\ RespOf(c).success \in BOOLEAN
            /\ IsSuccessEnvelope(RespOf(c)) \/ IsErrorEnvelope(RespOf(c))
            /\ ~(RespOf(c).data # None /\ RespOf(c).error # None)
            /\ ~(RespOf(c).data = None /\ RespOf(c).error = None)

\* C6 witness: an error envelope was returned by send_token.
C6_Witness ==
    \E c \in Conns :
        /\ IsDone(c, "send_token")
        /\ IsErrorEnvelope(RespOf(c))
        /\ RespOf(c).error = Some("Invalid owner")

\* The responses a request can get when it is the only one served.
Alone(req) ==
    CASE req.endpoint = "generate_keypair" -> {generate_keypair(s) : s \in Seeds}
      [] req.endpoint = "create_token" -> {create_token(req.payload)}
      [] req.endpoint = "mint_token" -> {mint_token(req.payload)}
      [] req.endpoint = "sign_message" -> {sign_message(req.payload)}
      [] req.endpoint = "verify_message" -> {verify_message(req.payload)}
      [] req.endpoint = "send_sol" -> {send_sol(req.payload)}
      [] req.endpoint = "send_token" -> {send_token(req.payload)}

C8_MalformedSignatureGivesError ==
    \A c \in Conns :
        (IsDone(c, "verify_message") /\ ~SignatureIsWellFormed(PayloadOf(c).signature))
        => (IsErrorEnvelope(RespOf(c)) /\ RespOf(c).error[1] # "")

\* C8 witness: a signature that is base64 of bytes Signature::from_bytes
\* refuses was answered, the pubkey being a good key.
C8_Witness ==
    \E c \in Conns :
        /\ IsDone(c, "verify_message")
        /\ base64_decode(PayloadOf(c).signature).ok
        /\ ~SignatureIsWellFormed(PayloadOf(c).signature)
        /\ PubkeyIsKeyMaterial(PayloadOf(c).pubkey)
        /\ RespOf(c).error = Some("Invalid signature bytes")

\* C9: when pubkey and signature both decode, verify_message answers the
\* success envelope carrying the outcome and the request's message and
\* pubkey texts; it answers the error envelope only when a field fails to
\* decode.
C9_FailedVerificationIsAResult ==
    \A c \in Conns :
        IsDone(c, "verify_message") =>
            LET decodes == /\ PubkeyIsKeyMaterial(PayloadOf(c).pubkey)
                           /\ SignatureIsWellFormed(PayloadOf(c).signature)
            IN /\ decodes =>
                     /\ IsSuccessEnvelope(RespOf(c))
                     /\ RespOf(c).data[1].valid \in BOOLEAN
                     /\ RespOf(c).data[1].message = PayloadOf(c).message
                     /\ RespOf(c).data[1].pubkey = PayloadOf(c).pubkey
               /\ ~decodes => IsErrorEnvelope(RespOf(c))

\* C9 witness: a signature that does not match was answered with the
\* success envelope and valid = false.
C9_Witness ==
    \E c \in Conns :
        /\ IsDone(c, "verify_message")
        /\ RespOf(c).success
        /\ ~RespOf(c).data[1].valid
        /\ PayloadOf(c).message # <<>>

\* The validations of each handler in the order the claim lists them,
\* each with the error text of its failure.
Check(ok, msg) == [ok |-> ok, msg |-> msg]
ValidationOrder(endpoint, p) ==
    CASE endpoint = "create_token" ->
            <<Check(Pubkey_from_str(p.mint).ok, "Invalid mint pubkey"),
              Check(Pubkey_from_str(p.mintAuthority).ok, "Invalid authority pubkey")>>
      [] endpoint = "mint_token" ->
            <<Check(Pubkey_from_str(p.mint).ok, "Invalid mint pubkey"),
              Check(Pubkey_from_str(p.destination).ok, "Invalid destination pubkey"),
              Check(Pubkey_from_str(p.authority).ok, "Invalid authority pubkey")>>
      [] endpoint = "send_token" ->
            <<Check(Pubkey_from_str(p.mint).ok, "Invalid mint"),
              Check(Pubkey_from_str(p.destination).ok, "Invalid destination"),
              Check(Pubkey_from_str(p.owner).ok, "Invalid owner")>>
      [] endpoint = "send_sol" ->
            <<Check(Pubkey_from_str(p.from).ok, "Invalid from"),
              Check(Pubkey_from_str(p.to).ok, "Invalid to")>>
      [] endpoint = "verify_message" ->
            <<Check(bs58_decode(p.pubkey).ok, "Invalid pubkey"),
              Check(base64_decode(p.signature).ok, "Invalid signature"),
              Check(PubkeyIsKeyMaterial(p.pubkey), "Invalid pubkey bytes"),
              Check(SignatureIsWellFormed(p.signature), "Invalid signature bytes")>>
      [] endpoint = "sign_message" ->
            <<Check(bs58_decode(p.secret).ok, "Invalid secret"),
              Check(SecretIsKeyMaterial(p.secret), "Invalid secret bytes")>>
      [] OTHER -> <<>>

Failures(checks) == {i \in 1..Len(checks) : ~checks[i].ok}

FirstFailure(checks) ==
    checks[CHOOSE i \in Failures(checks) : \A j \in Failures(checks) : i <= j].msg

\* C10: the error text of a response is that of the first validation, in
\* the handler's order, that the request fails; a request that fails
\* none is not answered with an error.
C10_FirstInvalidFieldDecides ==
    \A c \in Conns :
        conn[c].state = "done" =>
            LET checks == ValidationOrder(ReqOf(c).endpoint, PayloadOf(c))
            IN IF Failures(checks) # {}
               THEN RespOf(c) = ApiResponse_err(FirstFailure(checks))
               ELSE RespOf(c).success

\* C10 witness: a verify_message request that fails the signature
\* encoding and the pubkey bytes validations, and no earlier one, was
\* answered with the signature encoding's error.
C10_Witness ==
    \E c \in Conns :
        /\ IsDone(c, "verify_message")
        /\ Failures(ValidationOrder("verify_message", PayloadOf(c))) = {2, 3, 4}
        /\ RespOf(c).error = Some("Invalid signature")

====
